---------------------------- MODULE Spec2Model ----------------------------
(***************************************************************************)
(* Model of memory-mcp: one MongoDB collection ("memories") that holds the *)
(* memory ledger records, the archived context fragments and the summary   *)
(* items, the db functions of src/src/db/db.ts that read and write it, and *)
(* the entry points that expose them (tool functions of                    *)
(* src/src/tools/memory.ts, handlers registered with server.tool in        *)
(* src/unnamed/part_000, the CallTool dispatcher of                        *)
(* src/src/server/index.ts).                                               *)
(*                                                                         *)
(* Representation.                                                         *)
(*   string        a tuple of one-character strings, <<"a"," ","b">>       *)
(*   string[]      a tuple of such tuples                                  *)
(*   document      a record that has exactly the fields the document has;  *)
(*                 an absent field is absent from DOMAIN                   *)
(*   number        relevanceScore is the fraction <<n, d>> of the division *)
(*                 n / d that produced it; <<0, 0>> is NaN                 *)
(*   Date          a logical instant (clock)                               *)
(*   ObjectId      a natural number, never reused (nextId)                 *)
(***************************************************************************)
EXTENDS Integers, Sequences, FiniteSets, TLC

VARIABLES
    store,      \* the documents of the collection, in insertion order
    nextId,     \* the next ObjectId the driver assigns
    clock,      \* the instant new Date() returns
    connected,  \* client && db && collection of db.ts
    last,       \* the call that produced this state: name, entry point,
                \* arguments, outcome and returned value
    clients,    \* the MongoClient objects constructed so far; the module
                \* variable client holds the latest
    handle,     \* the client the module variable collection was taken
                \* from, 0 while it is undefined
    calls       \* the calls in flight, one per caller: where each stands
                \* between two awaits and what it holds in its locals

vars == <<store, nextId, clock, connected, last, clients, handle, calls>>

---------------------------------------------------------------------------
(* Bounds *)

MaxStrLen == 3      \* longest string of the scoring and word-count runs
MaxBatch == 2       \* longest contextMessages / memories array
MaxId == 2          \* documents ever inserted in one run

---------------------------------------------------------------------------
(* Strings *)

Chars == {"a", "A", "b", "c", " "}

Undefined == "undefined"

Strings(n) == UNION {[1..k -> Chars] : k \in 0..n}

Range(s) == {s[i] : i \in DOMAIN s}

\* \s of the regular expressions
isWhitespace(c) == c = " "

\* String.prototype.toLowerCase
lowerChar(c) == IF c = "A" THEN "a" ELSE c

toLowerCase(s) == [i \in DOMAIN s |-> lowerChar(s[i])]

\* String.prototype.split(/\s+/): the pieces between maximal runs of
\* whitespace; a run at the start or at the end of the string, and the
\* empty string itself, leave an empty piece
RECURSIVE splitFrom(_, _, _)
splitFrom(s, i, cur) ==
    IF i > Len(s) THEN <<cur>>
    ELSE IF isWhitespace(s[i])
         THEN IF i > 1 /\ isWhitespace(s[i - 1])
              THEN splitFrom(s, i + 1, cur)
              ELSE <<cur>> \o splitFrom(s, i + 1, <<>>)
         ELSE splitFrom(s, i + 1, Append(cur, s[i]))

splitNonEmpty(s) == SelectSeq(splitFrom(s, 1, <<>>), LAMBDA t : t # <<>>)

split(s) == splitFrom(s, 1, <<>>)

\* Array.prototype.join(" ")
RECURSIVE join(_)
join(arr) ==
    IF Len(arr) = 0 THEN <<>>
    ELSE IF Len(arr) = 1 THEN arr[1]
    ELSE arr[1] \o <<" ">> \o join(Tail(arr))

---------------------------------------------------------------------------
(* Documents and the store (the MongoDB collection "memories") *)

Has(d, f) == f \in DOMAIN d

\* { $set: { f: v } } on one document
SetField(d, f, v) == (f :> v) @@ d

Ids(s) == {s[i]._id : i \in DOMAIN s}

\* collection.insertOne(doc): the driver assigns _id and appends
insertOne(s, doc, id) == Append(s, SetField(doc, "_id", id))

\* collection.insertMany(docs), the documents getting consecutive ids
insertMany(s, docs, firstId) ==
    s \o [i \in DOMAIN docs |-> SetField(docs[i], "_id", firstId + i - 1)]

\* collection.deleteMany({})
deleteManyAll(s) == <<>>

\* collection.updateOne({ _id }, { $set: { f: v } })
updateOne(s, id, f, v) ==
    [i \in DOMAIN s |-> IF s[i]._id = id THEN SetField(s[i], f, v) ELSE s[i]]

\* a query operator { f: v }: the field is present and equal
FieldIs(d, f, v) == Has(d, f) /\ d[f] = v

\* a query operator { tags: { $in: tags } }: the field is present and one
\* of its elements is one of tags
TagsIn(d, tags) == Has(d, "tags") /\ Range(d.tags) \cap Range(tags) # {}

---------------------------------------------------------------------------
(* Numbers: the relevance score is kept as the fraction that produced it *)

IsNumber(q) == q[2] # 0

\* q >= r; a comparison with NaN is false
Gte(q, r) == IsNumber(q) /\ IsNumber(r) /\ q[1] * r[2] >= r[1] * q[2]

Gt(q, r) == IsNumber(q) /\ IsNumber(r) /\ q[1] * r[2] > r[1] * q[2]

NumEq(q, r) == IsNumber(q) /\ IsNumber(r) /\ q[1] * r[2] = r[1] * q[2]

---------------------------------------------------------------------------
(* db.ts *)

\* saveMemories builds memoryDoc
memoryDoc(memories, llm, userId, now) ==
    [memories |-> memories, timestamp |-> now, llm |-> llm, userId |-> userId]

saveMemories(s, memories, llm, userId, now, id) ==
    insertOne(s, memoryDoc(memories, llm, userId, now), id)

clearAllMemories(s) == deleteManyAll(s)

\* result.deletedCount || 0
clearAllMemoriesCount(s) == Len(s)

\* message.split(/\s+/).length
wordCount(text) == Len(split(text))

\* archiveContext: contextMessages.map((message, index) => ...)
archivedItems(conversationId, contextMessages, tags, llm, userId, now) ==
    [i \in DOMAIN contextMessages |->
        [memories |-> <<contextMessages[i]>>,
         timestamp |-> now,
         llm |-> llm,
         userId |-> userId,
         conversationId |-> conversationId,
         contextType |-> "archived",
         tags |-> tags,
         messageIndex |-> i - 1,
         wordCount |-> wordCount(contextMessages[i])]]

\* The MongoDB driver refuses an empty batch: insertMany([]) rejects with
\* MongoInvalidArgumentError ("Invalid BulkOperation, Batch cannot be
\* empty") before anything is written
insertManyThrows(docs) == Len(docs) = 0

\* archiveContext: [status, value, store]
archiveContext(s, conversationId, contextMessages, tags, llm, userId, now, firstId) ==
    LET items == archivedItems(conversationId, contextMessages, tags, llm, userId, now)
    IN  IF insertManyThrows(items)
        THEN [status |-> "throw", value |-> 0, store |-> s]
        ELSE [status |-> "ok", value |-> Len(items),
              store |-> insertMany(s, items, firstId)]

\* scoreRelevance: new Set(text.toLowerCase().split(/\s+/))
wordSet(text) == Range(split(toLowerCase(text)))

\* scoreRelevance, the body of the loop: intersection.size / union.size
relevanceScoreOf(currentContext, item) ==
    LET currentWords == wordSet(currentContext)
        itemText == join(item.memories)
        itemWords == wordSet(itemText)
        intersection == {x \in currentWords : x \in itemWords}
        union == currentWords \cup itemWords
    IN  <<Cardinality(intersection), Cardinality(union)>>

isArchivedUnlinkedOf(d, conversationId) ==
    /\ FieldIs(d, "conversationId", conversationId)
    /\ FieldIs(d, "contextType", "archived")
    /\ ~Has(d, "parentContextId")

isArchivedOfAny(d, conversationId) == FieldIs(d, "contextType", "archived")

\* scoreRelevance: find({ conversationId, contextType: "archived" })
isArchivedOf(d, conversationId) ==
    FieldIs(d, "conversationId", conversationId) /\ FieldIs(d, "contextType", "archived")

\* scoreRelevance: [status, value, store]; every item found is given its
\* score by an updateOne of its own
scoreRelevance(s, conversationId, currentContext) ==
    LET found == SelectSeq(s, LAMBDA d : isArchivedOf(d, conversationId))
    IN  IF Len(found) = 0
        THEN [status |-> "ok", value |-> 0, store |-> s]
        ELSE [status |-> "ok", value |-> Len(found),
              store |-> [i \in DOMAIN s |->
                            IF isArchivedOf(s[i], conversationId)
                            THEN SetField(s[i], "relevanceScore",
                                          relevanceScoreOf(currentContext, s[i]))
                            ELSE s[i]]]

\* createSummary builds summaryDoc
summaryDoc(conversationId, summaryText, llm, userId, now) ==
    [memories |-> <<summaryText>>,
     timestamp |-> now,
     llm |-> llm,
     userId |-> userId,
     conversationId |-> conversationId,
     contextType |-> "summary",
     summaryText |-> summaryText,
     wordCount |-> wordCount(summaryText)]

itemIdsNullAsFirst(contextItems) ==
    {IF Has(contextItems[i], "_id") THEN contextItems[i]._id ELSE 11 :
        i \in DOMAIN contextItems}

\* createSummary: contextItems.map(item => item._id).filter(id => id !== undefined)
itemIds(contextItems) ==
    {contextItems[i]._id : i \in {j \in DOMAIN contextItems : Has(contextItems[j], "_id")}}

relinkTypeOnly(s, ids, summaryId) ==
    [i \in DOMAIN s |->
        IF s[i]._id \in ids THEN SetField(s[i], "contextType", "archived") ELSE s[i]]

\* createSummary: updateMany({ _id: { $in: itemIds } },
\*                           { $set: { contextType: "archived", parentContextId } })
relink(s, ids, summaryId) ==
    [i \in DOMAIN s |->
        IF s[i]._id \in ids
        THEN SetField(SetField(s[i], "contextType", "archived"),
                      "parentContextId", summaryId)
        ELSE s[i]]

\* createSummary: [status, value, store]; value is the summary's id
createSummary(s, conversationId, contextItems, summaryText, llm, userId, now, id) ==
    LET inserted == insertOne(s, summaryDoc(conversationId, summaryText, llm, userId, now), id)
        ids == itemIds(contextItems)
    IN  [status |-> "ok", value |-> id,
         store |-> IF ids # {} THEN relink(inserted, ids, id) ELSE inserted]

\* retrieveContext(conversationId, tags?, minRelevanceScore = 0.1, limit = 10):
\* the defaults of the signature; an omitted argument is <<>>
DefaultLimit == 10

DefaultMinRelevanceScore == <<1, 10>>

minOrDefault(minRelevanceScore) ==
    IF minRelevanceScore = <<>> THEN DefaultMinRelevanceScore ELSE minRelevanceScore

limitOrDefault(limit) == IF limit = <<>> THEN DefaultLimit ELSE limit[1]

retrieveFilterNoScore(d, conversationId, tags, minRelevanceScore) ==
    /\ isArchivedOf(d, conversationId)
    /\ (Has(d, "relevanceScore") => Gte(d.relevanceScore, minRelevanceScore))
    /\ (Len(tags) > 0 => TagsIn(d, tags))

\* retrieveContext: the filter; { relevanceScore: { $gte: m } } matches no
\* document that lacks the field
retrieveFilter(d, conversationId, tags, minRelevanceScore) ==
    /\ isArchivedOf(d, conversationId)
    /\ Has(d, "relevanceScore")
    /\ Gte(d.relevanceScore, minRelevanceScore)
    /\ (Len(tags) > 0 => TagsIn(d, tags))

\* sort key relevanceScore: -1; a document without the field sorts as null,
\* below every number
scoreAbove(a, b) ==
    Has(a, "relevanceScore") /\ (~Has(b, "relevanceScore") \/ Gt(a.relevanceScore, b.relevanceScore))

scoreTied(a, b) == ~scoreAbove(a, b) /\ ~scoreAbove(b, a)

sortsBeforeAscending(a, b) ==
    scoreAbove(b, a) \/ (scoreTied(a, b) /\ a.timestamp > b.timestamp)

\* .sort({ relevanceScore: -1, timestamp: -1 })
sortsBefore(a, b) ==
    scoreAbove(a, b) \/ (scoreTied(a, b) /\ a.timestamp > b.timestamp)

\* the order of documents that tie on every sort key is the server's choice:
\* tiesReversed is that choice
RECURSIVE insertSorted(_, _, _)
insertSorted(x, sorted, tiesReversed) ==
    IF Len(sorted) = 0 THEN <<x>>
    ELSE IF sortsBefore(x, Head(sorted))
            \/ (tiesReversed /\ ~sortsBefore(Head(sorted), x))
         THEN <<x>> \o sorted
         ELSE <<Head(sorted)>> \o insertSorted(x, Tail(sorted), tiesReversed)

RECURSIVE sortDocs(_, _)
sortDocs(docs, tiesReversed) ==
    IF Len(docs) = 0 THEN <<>>
    ELSE insertSorted(docs[Len(docs)],
                      sortDocs(SubSeq(docs, 1, Len(docs) - 1), tiesReversed),
                      tiesReversed)

Abs(n) == IF n < 0 THEN -n ELSE n

Min(a, b) == IF a < b THEN a ELSE b

\* cursor.limit(n): the first |n| documents; 0 is "no limit"
limitDocs(docs, n) ==
    IF n = 0 THEN docs ELSE SubSeq(docs, 1, Min(Abs(n), Len(docs)))

\* retrieveContext: the documents returned
retrieveContext(s, conversationId, tags, minRelevanceScore, limit, tiesReversed) ==
    limitDocs(
        sortDocs(SelectSeq(s, LAMBDA d : retrieveFilter(d, conversationId, tags,
                                                        minOrDefault(minRelevanceScore))),
                 tiesReversed),
        limitOrDefault(limit))

---------------------------------------------------------------------------
(* The state machine *)

NoArgs == [none |-> TRUE]

\* the callers whose calls can be in flight together
Callers == {1, 2}

Idle == [op |-> "idle", pc |-> "none"]

NoCalls == [p \in Callers |-> Idle]

\* connect() run from its test to its last assignment without another call
\* in between: unless the handle is there a MongoClient is constructed and
\* the handle taken from it
Connect ==
    /\ connected' = TRUE
    /\ clients' = IF connected THEN clients ELSE clients + 1
    /\ handle' = IF connected THEN handle ELSE clients + 1

Init ==
    /\ store = <<>>
    /\ nextId = 1
    /\ clock = 1
    /\ connected = FALSE
    /\ clients = 0
    /\ handle = 0
    /\ calls = NoCalls
    /\ last = [op |-> "init", via |-> "none", args |-> NoArgs,
               status |-> "ok", value |-> 0]

\* the call returned (or threw) without a write
Returned(op, via, args, status, value) ==
    /\ last' = [op |-> op, via |-> via, args |-> args, status |-> status, value |-> value]
    /\ Connect
    /\ UNCHANGED <<store, nextId, clock, calls>>

\* the call inserted n documents dated new Date() and left the store as s
Wrote(op, via, args, status, value, s, n) ==
    /\ last' = [op |-> op, via |-> via, args |-> args, status |-> status, value |-> value]
    /\ Connect
    /\ store' = s
    /\ nextId' = nextId + n
    /\ clock' = clock + 1
    /\ UNCHANGED calls

\* room for n more documents in this run
Room(n) == nextId + n - 1 <= MaxId

\* the optional userId of an argument bundle
userIdOf(args) == IF Has(args, "userId") THEN args.userId ELSE Undefined

\* Array.isArray(memories) && typeof llm === 'string'
validMemoryArgs(args) == Has(args, "memories") /\ Has(args, "llm")

\* what the memories field holds when a db function is handed the whole
\* argument bundle as its first parameter: the bundle object, which is no
\* array of strings
ObjectValue == << <<"[object Object]">> >>

(* save-memories *)

\* memory.ts saveMemoriesTool
SaveMemoriesTool(bundles) ==
    \E args \in bundles :
        IF ~validMemoryArgs(args)
        THEN Returned("save-memories", "tool", args, "invalid", 0)
        ELSE /\ Room(1)
             /\ Wrote("save-memories", "tool", args, "ok", 0,
                      saveMemories(clearAllMemories(store), args.memories, args.llm,
                                   userIdOf(args), clock, nextId), 1)

\* part_000 server.tool("save-memories", ...): the schema is checked before
\* the handler runs
SaveMemoriesRegistered(bundles) ==
    \E args \in bundles :
        IF ~validMemoryArgs(args)
        THEN Returned("save-memories", "registered", args, "invalid", 0)
        ELSE /\ Room(1)
             /\ Wrote("save-memories", "registered", args, "ok", 0,
                      saveMemories(clearAllMemories(store), args.memories, args.llm,
                                   userIdOf(args), clock, nextId), 1)

\* server/index.ts CallTool handler: toolHandlers["save-memories"] is the db
\* function saveMemories, called as handler(request.params.arguments)
SaveMemoriesDispatch(bundles) ==
    \E args \in bundles :
        /\ Room(1)
        /\ Wrote("save-memories", "dispatcher", args, "ok", 0,
                 saveMemories(store, ObjectValue, Undefined, Undefined, clock, nextId), 1)

(* add-memories *)

\* addMemories of db.js, imported by memory.ts: the write path of
\* saveMemories, never preceded by a clear
addMemories(s, memories, llm, userId, now, id) ==
    insertOne(s, memoryDoc(memories, llm, userId, now), id)

\* memory.ts addMemoriesTool
AddMemoriesTool(bundles) ==
    \E args \in bundles :
        IF ~Has(args, "memories")
        THEN Returned("add-memories", "tool", args, "throw", 0)
        ELSE IF Len(args.memories) = 0 \/ ~Has(args, "llm")
        THEN Returned("add-memories", "tool", args, "invalid", 0)
        ELSE /\ Room(1)
             /\ Wrote("add-memories", "tool", args, "ok", 0,
                      addMemories(store, args.memories, args.llm, userIdOf(args),
                                  clock, nextId), 1)

\* part_000 server.tool("add-memories", ...)
AddMemoriesRegistered(bundles) ==
    \E args \in bundles :
        IF ~validMemoryArgs(args)
        THEN Returned("add-memories", "registered", args, "invalid", 0)
        ELSE /\ Room(1)
             /\ Wrote("add-memories", "registered", args, "ok", 0,
                      saveMemories(store, args.memories, args.llm, userIdOf(args),
                                   clock, nextId), 1)

\* server/index.ts CallTool handler: toolHandlers["add-memories"] is the db
\* function addMemories, called as handler(request.params.arguments)
AddMemoriesDispatch(bundles) ==
    \E args \in bundles :
        /\ Room(1)
        /\ Wrote("add-memories", "dispatcher", args, "ok", 0,
                 addMemories(store, ObjectValue, Undefined, Undefined, clock, nextId), 1)

(* the context archive, the scorer and the summary manager: the db functions
   as their handlers call them, with arguments of the declared types *)

ArchiveContext(convs, batches, tagSets) ==
    \E conversationId \in convs, contextMessages \in batches, tags \in tagSets :
        LET args == [conversationId |-> conversationId,
                     contextMessages |-> contextMessages,
                     tags |-> tags, llm |-> "claude", userId |-> Undefined]
            r == archiveContext(store, conversationId, contextMessages, tags,
                                "claude", Undefined, clock, nextId)
        IN  /\ Room(Len(contextMessages))
            /\ IF r.status = "throw"
               THEN Returned("archive-context", "db", args, "throw", 0)
               ELSE Wrote("archive-context", "db", args, "ok", r.value, r.store,
                          Len(contextMessages))

ScoreRelevance(convs, contexts) ==
    \E conversationId \in convs, currentContext \in contexts :
        LET args == [conversationId |-> conversationId,
                     currentContext |-> currentContext, llm |-> "claude"]
            r == scoreRelevance(store, conversationId, currentContext)
        IN  /\ last' = [op |-> "score-relevance", via |-> "db", args |-> args,
                        status |-> r.status, value |-> r.value]
            /\ Connect
            /\ store' = r.store
            /\ UNCHANGED <<nextId, clock, calls>>

CreateSummary(convs, itemLists, texts) ==
    \E conversationId \in convs, contextItems \in itemLists, summaryText \in texts :
        LET args == [conversationId |-> conversationId, contextItems |-> contextItems,
                     summaryText |-> summaryText, llm |-> "claude", userId |-> Undefined]
            r == createSummary(store, conversationId, contextItems, summaryText,
                               "claude", Undefined, clock, nextId)
        IN  /\ Room(1)
            \* an ObjectId the driver has not generated yet is in no argument
            /\ nextId \notin itemIds(contextItems)
            /\ Wrote("create-summary", "db", args, r.status, r.value, r.store, 1)

RetrieveContext(convs, tagSets, mins, limits) ==
    \E conversationId \in convs, tags \in tagSets, minRelevanceScore \in mins,
       limit \in limits, tiesReversed \in BOOLEAN :
        LET args == [conversationId |-> conversationId, tags |-> tags,
                     minRelevanceScore |-> minRelevanceScore, limit |-> limit]
        IN  Returned("retrieve-context", "db", args, "ok",
                     retrieveContext(store, conversationId, tags, minRelevanceScore,
                                     limit, tiesReversed))

---------------------------------------------------------------------------
(* The inputs of the calls *)

Batches(S, n) == UNION {[1..k -> S] : k \in 0..n}

ConvIds == {"c1", "c2"}

\* messages and summary texts: empty, whitespace only, one word, two words
\* in mixed case
Messages == {<<>>, <<" ">>, <<"a">>, <<"A", " ", "b">>}

Contexts == {<<>>, <<"a">>, <<" ", "a">>, <<"a", " ", "b">>}

TagSets == {<<"x">>, <<"y">>}

QueryTags == {<<>>, <<"x">>}

Memories == {<<"a">>, <<"b">>}

MessageBatches == Batches(Messages, MaxBatch)

\* argument bundles of save-memories and add-memories: with and without
\* userId, and with memories or llm missing
MemoryBundles ==
    {[memories |-> m, llm |-> l, userId |-> "u1"] :
        m \in Batches(Memories, MaxBatch), l \in {"claude"}}
    \cup {[memories |-> m, llm |-> l] :
        m \in Batches(Memories, MaxBatch), l \in {"claude", "chatgpt"}}
    \cup {[llm |-> "claude"], [memories |-> <<<<"a">>>>]}

\* contextItems of create-summary: items with the _id of a document that
\* may or may not exist, and items without _id
ItemLists ==
    {<<>>, <<[llm |-> "claude"]>>}
    \cup {<<[_id |-> i, llm |-> "claude"]>> : i \in 1..MaxId}
    \cup {<<[llm |-> "claude"], [_id |-> i, llm |-> "claude"]>> : i \in 1..MaxId}
    \cup {<<[_id |-> 1, llm |-> "claude"], [_id |-> 2, llm |-> "claude"]>>}

MinScores == {<<>>, <<0, 1>>, <<1, 2>>}

Limits == {<<>>, <<1>>}

Next ==
    \/ SaveMemoriesTool(MemoryBundles)
    \/ SaveMemoriesRegistered(MemoryBundles)
    \/ SaveMemoriesDispatch(MemoryBundles)
    \/ AddMemoriesTool(MemoryBundles)
    \/ AddMemoriesRegistered(MemoryBundles)
    \/ AddMemoriesDispatch(MemoryBundles)
    \/ ArchiveContext(ConvIds, MessageBatches, TagSets)
    \/ ScoreRelevance(ConvIds, Contexts)
    \/ CreateSummary(ConvIds, ItemLists, Messages)
    \/ RetrieveContext(ConvIds, QueryTags, MinScores, Limits)

Spec == Init /\ [][Next]_vars

\* the memory ledger alone
NextLedger ==
    \/ SaveMemoriesTool(MemoryBundles)
    \/ SaveMemoriesRegistered(MemoryBundles)
    \/ SaveMemoriesDispatch(MemoryBundles)
    \/ AddMemoriesTool(MemoryBundles)
    \/ AddMemoriesRegistered(MemoryBundles)
    \/ AddMemoriesDispatch(MemoryBundles)

SpecLedger == Init /\ [][NextLedger]_vars

\* the calls that write context items
NextArchive ==
    \/ ArchiveContext(ConvIds, MessageBatches, TagSets)
    \/ ScoreRelevance(ConvIds, Contexts)
    \/ CreateSummary(ConvIds, ItemLists, Messages)

SpecArchive == Init /\ [][NextArchive]_vars

\* the calls that can put a relevanceScore in the store or stand between
\* two scorings: one conversation archived and summarised, scored under
\* either conversation id against every context
NextScoring ==
    \/ ArchiveContext({"c1"}, MessageBatches, {<<"x">>})
    \/ ScoreRelevance(ConvIds, Contexts)
    \/ CreateSummary({"c1"}, ItemLists, {<<>>, <<"a">>})

SpecScoring == Init /\ [][NextScoring]_vars

\* one archived message scored once against one context, over every pair
\* of strings up to MaxStrLen
OneMessageBatches == {<<m>> : m \in Strings(MaxStrLen)}

ScoringContexts == Strings(MaxStrLen)

NextJaccard ==
    \/ /\ store = <<>>
       /\ ArchiveContext({"c1"}, OneMessageBatches, {<<"x">>})
    \/ /\ last.op = "archive-context"
       /\ ScoreRelevance({"c1"}, ScoringContexts)

SpecJaccard == Init /\ [][NextJaccard]_vars

---------------------------------------------------------------------------
(* Retrieval over stores that earlier archiving and scoring left behind.
   The items are the ones archiveContext builds, the scores the ones
   scoreRelevance can have given them against longer contexts. *)

MaxSmallStore == 2  \* documents of the freely chosen stores
MaxExtra == 2       \* matching documents beyond the default limit

Scores == {<<1, 20>>, <<1, 2>>, <<9, 10>>}

\* an archived item as archiveContext left it
archivedDoc(conversationId, tags, now) ==
    archivedItems(conversationId, <<<<"a">>>>, tags, "claude", Undefined, now)[1]

\* the documents a small store is made of: unscored and scored items of c1,
\* an item of c2, a summary and a ledger record
SmallDocs ==
    {archivedDoc("c1", t, n) : t \in TagSets, n \in 1..2}
    \cup {SetField(archivedDoc("c1", t, n), "relevanceScore", q) :
            t \in TagSets, n \in 1..2, q \in Scores}
    \cup {SetField(archivedDoc("c2", <<"x">>, 1), "relevanceScore", <<9, 10>>),
          summaryDoc("c1", <<"a">>, "claude", Undefined, 1),
          memoryDoc(<<<<"a">>>>, "claude", Undefined, 1)}

WithIds(docs) == [i \in DOMAIN docs |-> SetField(docs[i], "_id", i)]

SmallStores == {WithIds(docs) : docs \in Batches(SmallDocs, MaxSmallStore)}

\* three items of c1 scored 0.9, 0.5 and 0.05
ExampleStore ==
    WithIds(<<SetField(archivedDoc("c1", <<"x">>, 1), "relevanceScore", <<1, 20>>),
              SetField(archivedDoc("c1", <<"x">>, 2), "relevanceScore", <<9, 10>>),
              SetField(archivedDoc("c1", <<"y">>, 2), "relevanceScore", <<1, 2>>)>>)

\* more scored items of c1 than the default limit, two scores and two
\* instants alternating
LargeStores ==
    {WithIds([i \in 1..(DefaultLimit + k) |->
                SetField(archivedDoc("c1", <<"x">>, 1 + ((i \div 2) % 2)),
                         "relevanceScore", IF i % 3 = 0 THEN <<9, 10>> ELSE <<1, 2>>)])
        : k \in 1..MaxExtra}

InitRetrieve ==
    /\ store \in SmallStores \cup {ExampleStore} \cup LargeStores
    /\ nextId = Len(store) + 1
    /\ clock = 3
    /\ connected = FALSE
    /\ clients = 0
    /\ handle = 0
    /\ calls = NoCalls
    /\ last = [op |-> "init", via |-> "none", args |-> NoArgs,
               status |-> "ok", value |-> 0]

RetrieveMins == {<<>>, <<0, 1>>, <<1, 10>>, <<1, 2>>}

RetrieveLimits == {<<>>, <<1>>, <<2>>}

\* one retrieval of each stored state
NextRetrieve ==
    /\ last.op = "init"
    /\ RetrieveContext(ConvIds, QueryTags, RetrieveMins, RetrieveLimits)

SpecRetrieve == InitRetrieve /\ [][NextRetrieve]_vars

---------------------------------------------------------------------------
(* The ledger queries, and the ledger and the context archive in the one
   collection they share (COLLECTION_NAME of db.ts) *)

\* .sort({ timestamp: -1 }); tiesReversed is the server's order of ties
RECURSIVE insertNewer(_, _, _)
insertNewer(x, sorted, tiesReversed) ==
    IF Len(sorted) = 0 THEN <<x>>
    ELSE IF x.timestamp > Head(sorted).timestamp
            \/ (tiesReversed /\ x.timestamp = Head(sorted).timestamp)
         THEN <<x>> \o sorted
         ELSE <<Head(sorted)>> \o insertNewer(x, Tail(sorted), tiesReversed)

RECURSIVE newestFirst(_, _)
newestFirst(docs, tiesReversed) ==
    IF Len(docs) = 0 THEN <<>>
    ELSE insertNewer(docs[Len(docs)],
                     newestFirst(SubSeq(docs, 1, Len(docs) - 1), tiesReversed),
                     tiesReversed)

\* getAllMemories: collection.find({}).sort({ timestamp: -1 }).toArray()
getAllMemories(s, tiesReversed) == newestFirst(s, tiesReversed)

\* db.ts clearAllMemories
ClearAllMemories ==
    /\ last' = [op |-> "clear-memories", via |-> "db", args |-> NoArgs,
                status |-> "ok", value |-> clearAllMemoriesCount(store)]
    /\ Connect
    /\ store' = clearAllMemories(store)
    /\ UNCHANGED <<nextId, clock, calls>>

\* db.ts getAllMemories
GetAllMemories ==
    \E tiesReversed \in BOOLEAN :
        Returned("get-memories", "db", NoArgs, "ok", getAllMemories(store, tiesReversed))

\* well-formed bundles of save-memories and add-memories
LedgerBundles ==
    {[memories |-> m, llm |-> "claude"] : m \in Batches(Memories, MaxBatch) \ {<<>>}}

NextShared ==
    \/ SaveMemoriesTool(LedgerBundles)
    \/ AddMemoriesRegistered(LedgerBundles)
    \/ ArchiveContext({"c1"}, {<<<<"a">>>>, <<<<"a">>, <<"b">>>>}, {<<"x">>})
    \/ CreateSummary({"c1"}, {<<>>, <<[_id |-> 1, llm |-> "claude"]>>}, {<<"a">>})
    \/ ClearAllMemories
    \/ GetAllMemories

SpecShared == Init /\ [][NextShared]_vars

---------------------------------------------------------------------------
(* Summaries and the tag search, over stores that earlier archiving and
   scoring left behind *)

\* getConversationSummaries: find({ conversationId, contextType: "summary" })
isSummaryOf(d, conversationId) ==
    FieldIs(d, "conversationId", conversationId) /\ FieldIs(d, "contextType", "summary")

\* getConversationSummaries: ....sort({ timestamp: -1 }).toArray()
getConversationSummaries(s, conversationId, tiesReversed) ==
    newestFirst(SelectSeq(s, LAMBDA d : isSummaryOf(d, conversationId)), tiesReversed)

searchFilterAllTags(d, tags) ==
    /\ Has(d, "tags") /\ Range(tags) \subseteq Range(d.tags)
    /\ Has(d, "contextType") /\ d.contextType \in {"archived", "summary"}

\* searchContextByTags: find({ tags: { $in: tags },
\*                             contextType: { $in: ["archived", "summary"] } })
searchFilter(d, tags) ==
    /\ TagsIn(d, tags)
    /\ Has(d, "contextType") /\ d.contextType \in {"archived", "summary"}

\* searchContextByTags: ....sort({ relevanceScore: -1, timestamp: -1 }).toArray()
searchContextByTags(s, tags, tiesReversed) ==
    sortDocs(SelectSeq(s, LAMBDA d : searchFilter(d, tags)), tiesReversed)

\* db.ts getConversationSummaries
GetConversationSummaries(convs) ==
    \E conversationId \in convs, tiesReversed \in BOOLEAN :
        Returned("get-conversation-summaries", "db", [conversationId |-> conversationId],
                 "ok", getConversationSummaries(store, conversationId, tiesReversed))

\* db.ts searchContextByTags
SearchContextByTags(tagSets) ==
    \E tags \in tagSets, tiesReversed \in BOOLEAN :
        Returned("search-context-by-tags", "db", [tags |-> tags], "ok",
                 searchContextByTags(store, tags, tiesReversed))

\* documents stored before the run: fragments of two conversations, scored
\* and not
SourceDocs ==
    {archivedDoc("c1", <<"x">>, 1),
     SetField(archivedDoc("c1", <<"y">>, 2), "relevanceScore", <<1, 2>>),
     SetField(archivedDoc("c2", <<"x">>, 1), "relevanceScore", <<9, 10>>)}

\* their ObjectIds, which are none of those the run assigns
Earlier(docs) == [i \in DOMAIN docs |-> SetField(docs[i], "_id", 10 + i)]

SummaryStores == {Earlier(docs) : docs \in Batches(SourceDocs, 2)}

\* contextItems: items without _id, items of the earlier documents and
\* the first document of the run
SummaryItemLists ==
    {<<>>,
     <<[llm |-> "claude"]>>,
     <<[_id |-> 11, llm |-> "claude"], [_id |-> 12, llm |-> "claude"]>>,
     <<[llm |-> "claude"], [_id |-> 12, llm |-> "claude"]>>,
     <<[_id |-> 1, llm |-> "claude"]>>}

SearchTags == {<<"x">>, <<"y">>, <<"x", "y">>, <<"z">>}

InitSummary ==
    /\ store \in SummaryStores
    /\ nextId = 1
    /\ clock = 3
    /\ connected = FALSE
    /\ clients = 0
    /\ handle = 0
    /\ calls = NoCalls
    /\ last = [op |-> "init", via |-> "none", args |-> NoArgs,
               status |-> "ok", value |-> 0]

\* a query leaves the store as it is: the writes of a run are followed here
\* with one query on the store each of them leaves
Queried ==
    last.op \in {"get-conversation-summaries", "search-context-by-tags"}

NextSummary ==
    \/ ~Queried /\ ArchiveContext({"c1"}, {<<<<"a">>>>}, {<<"y">>})
    \/ ~Queried /\ ScoreRelevance({"c1"}, {<<"a">>, <<"a", " ", "b">>})
    \/ ~Queried /\ CreateSummary(ConvIds, SummaryItemLists, {<<"a">>, <<"b">>})
    \/ ~Queried /\ GetConversationSummaries(ConvIds)
    \/ ~Queried /\ SearchContextByTags(SearchTags)

SpecSummary == InitSummary /\ [][NextSummary]_vars

---------------------------------------------------------------------------
(* The entry points of archive-context, search-context-by-tags and
   retrieve-context: the tool functions of memory.ts, the handlers
   registered with server.tool and the CallTool dispatcher *)

\* typeof conversationId === 'string' && Array.isArray(contextMessages)
\* && typeof llm === 'string' && Array.isArray(tags)
validArchiveArgs(args) ==
    /\ Has(args, "conversationId") /\ Has(args, "contextMessages")
    /\ Has(args, "llm") /\ Has(args, "tags")

\* memory.ts archiveContextTool
ArchiveContextTool(bundles) ==
    \E args \in bundles :
        IF ~validArchiveArgs(args)
        THEN Returned("archive-context", "tool", args, "invalid", 0)
        ELSE LET r == archiveContext(store, args.conversationId, args.contextMessages,
                                     args.tags, args.llm, userIdOf(args), clock, nextId)
             IN  /\ Room(Len(args.contextMessages))
                 /\ IF r.status = "throw"
                    THEN Returned("archive-context", "tool", args, "throw", 0)
                    ELSE Wrote("archive-context", "tool", args, "ok", r.value, r.store,
                               Len(args.contextMessages))

\* part_000 server.tool("archive-context", ...): the schema is checked
\* before the handler runs, and the handler renders an error of the db
\* function as a text reply
ArchiveContextRegistered(bundles) ==
    \E args \in bundles :
        IF ~validArchiveArgs(args)
        THEN Returned("archive-context", "registered", args, "invalid", 0)
        ELSE LET r == archiveContext(store, args.conversationId, args.contextMessages,
                                     args.tags, args.llm, userIdOf(args), clock, nextId)
             IN  /\ Room(Len(args.contextMessages))
                 /\ IF r.status = "throw"
                    THEN Returned("archive-context", "registered", args, "failed", 0)
                    ELSE Wrote("archive-context", "registered", args, "ok", r.value,
                               r.store, Len(args.contextMessages))

\* server/index.ts CallTool handler: archiveContext is handed the bundle as
\* conversationId and no contextMessages; contextMessages.map throws a
\* TypeError before insertMany
ArchiveContextDispatch(bundles) ==
    \E args \in bundles :
        Returned("archive-context", "dispatcher", args, "throw", 0)

\* memory.ts searchContextByTagsTool: !Array.isArray(args.tags), then
\* tags.length === 0, are answered without a query
SearchContextByTagsTool(bundles) ==
    \E args \in bundles, tiesReversed \in BOOLEAN :
        IF ~Has(args, "tags") \/ Len(args.tags) = 0
        THEN Returned("search-context-by-tags", "tool", args, "invalid", <<>>)
        ELSE Returned("search-context-by-tags", "tool", args, "ok",
                      searchContextByTags(store, args.tags, tiesReversed))

\* part_000 server.tool("search-context-by-tags", { tags: z.array(z.string()) })
SearchContextByTagsRegistered(bundles) ==
    \E args \in bundles, tiesReversed \in BOOLEAN :
        IF ~Has(args, "tags")
        THEN Returned("search-context-by-tags", "registered", args, "invalid", <<>>)
        ELSE Returned("search-context-by-tags", "registered", args, "ok",
                      searchContextByTags(store, args.tags, tiesReversed))

\* server/index.ts CallTool handler: searchContextByTags is handed the
\* bundle as tags; the server refuses { $in: <object> } ("$in needs an array")
SearchContextByTagsDispatch(bundles) ==
    \E args \in bundles :
        Returned("search-context-by-tags", "dispatcher", args, "throw", <<>>)

ArchiveBundles ==
    {[conversationId |-> "c1", contextMessages |-> m, tags |-> t, llm |-> "claude"] :
        m \in {<<>>, <<<<"a">>>>}, t \in TagSets}
    \cup {[conversationId |-> "c1", contextMessages |-> <<<<"a">>>>, llm |-> "claude"],
          [conversationId |-> "c1", tags |-> <<"x">>, llm |-> "claude"]}

SearchBundles == {[tags |-> t] : t \in SearchTags \cup {<<>>}} \cup {NoArgs}

NextEntry ==
    \/ SaveMemoriesTool(MemoryBundles)
    \/ SaveMemoriesRegistered(MemoryBundles)
    \/ SaveMemoriesDispatch(MemoryBundles)
    \/ AddMemoriesTool(MemoryBundles)
    \/ AddMemoriesRegistered(MemoryBundles)
    \/ AddMemoriesDispatch(MemoryBundles)
    \/ ArchiveContextTool(ArchiveBundles)
    \/ ArchiveContextRegistered(ArchiveBundles)
    \/ ArchiveContextDispatch(ArchiveBundles)
    \/ SearchContextByTags(SearchTags \cup {<<>>})
    \/ SearchContextByTagsTool(SearchBundles)
    \/ SearchContextByTagsRegistered(SearchBundles)
    \/ SearchContextByTagsDispatch(SearchBundles)

SpecEntry == Init /\ [][NextEntry]_vars

\* retrieve-context: the bounds of the registered schema
MinLimit == 1
MaxLimit == 50

\* z.number().min(0).max(1) and z.number().int().min(1).max(50), both optional
validRetrieveArgs(args) ==
    /\ Has(args, "conversationId")
    /\ (args.minRelevanceScore # <<>> =>
            Gte(args.minRelevanceScore, <<0, 1>>) /\ Gte(<<1, 1>>, args.minRelevanceScore))
    /\ (args.limit # <<>> =>
            MinLimit <= args.limit[1] /\ args.limit[1] <= MaxLimit)

\* memory.ts retrieveContextTool: conversationId is the one argument checked
RetrieveContextTool(bundles) ==
    \E args \in bundles, tiesReversed \in BOOLEAN :
        IF ~Has(args, "conversationId")
        THEN Returned("retrieve-context", "tool", args, "invalid", <<>>)
        ELSE Returned("retrieve-context", "tool", args, "ok",
                      retrieveContext(store, args.conversationId, args.tags,
                                      args.minRelevanceScore, args.limit, tiesReversed))

\* part_000 server.tool("retrieve-context", ...) called through the SDK:
\* the schema is checked before the handler runs
RetrieveContextRegistered(bundles) ==
    \E args \in bundles, tiesReversed \in BOOLEAN :
        IF ~validRetrieveArgs(args)
        THEN Returned("retrieve-context", "registered", args, "invalid", <<>>)
        ELSE Returned("retrieve-context", "registered", args, "ok",
                      retrieveContext(store, args.conversationId, args.tags,
                                      args.minRelevanceScore, args.limit, tiesReversed))

\* part_000 invokeToolByName, behind the HTTP aliases: the captured handler
\* is called with the payload as it came, no schema in between
RetrieveContextAlias(bundles) ==
    \E args \in bundles, tiesReversed \in BOOLEAN :
        IF ~Has(args, "conversationId")
        THEN Returned("retrieve-context", "alias", args, "ok", <<>>)
        ELSE Returned("retrieve-context", "alias", args, "ok",
                      retrieveContext(store, args.conversationId, args.tags,
                                      args.minRelevanceScore, args.limit, tiesReversed))

\* server/index.ts CallTool handler: retrieveContext is handed the bundle as
\* conversationId, which no document has, and the defaults for the rest
RetrieveContextDispatch(bundles) ==
    \E args \in bundles :
        Returned("retrieve-context", "dispatcher", args, "ok", <<>>)

RetrieveBundles ==
    {[conversationId |-> "c1", tags |-> <<>>, minRelevanceScore |-> m, limit |-> l] :
        m \in {<<>>, <<1, 2>>, <<2, 1>>, <<-1, 1>>},
        l \in {<<>>, <<0>>, <<1>>, <<MaxLimit>>, <<MaxLimit + 1>>}}
    \cup {[tags |-> <<>>, minRelevanceScore |-> <<>>, limit |-> <<>>]}

\* more scored items of c1 than the largest limit
OverfullStore ==
    WithIds([i \in 1..(MaxLimit + 1) |->
                SetField(archivedDoc("c1", <<"x">>, 1 + (i % 2)), "relevanceScore",
                         IF i % 3 = 0 THEN <<9, 10>> ELSE <<1, 2>>)])

InitRetrieveEntry ==
    /\ store \in SmallStores \cup {ExampleStore, OverfullStore}
    /\ nextId = Len(store) + 1
    /\ clock = 3
    /\ connected = FALSE
    /\ clients = 0
    /\ handle = 0
    /\ calls = NoCalls
    /\ last = [op |-> "init", via |-> "none", args |-> NoArgs,
               status |-> "ok", value |-> 0]

NextRetrieveEntry ==
    /\ last.op = "init"
    /\ \/ RetrieveContextTool(RetrieveBundles)
       \/ RetrieveContextRegistered(RetrieveBundles)
       \/ RetrieveContextAlias(RetrieveBundles)
       \/ RetrieveContextDispatch(RetrieveBundles)

SpecRetrieveEntry == InitRetrieveEntry /\ [][NextRetrieveEntry]_vars

---------------------------------------------------------------------------
(* The CallTool dispatcher of server/index.ts taken alone *)

\* the names toolHandlers has an entry for
ToolNames ==
    {"save-memories", "get-memories", "clear-memories", "add-memories",
     "archive-context", "retrieve-context", "score-relevance",
     "get-conversation-summaries", "search-context-by-tags", "create-summary"}

\* server/index.ts CallTool handler, `if (!handler) throw new Error(...)`:
\* no handler is called and connect() is never reached
UnknownToolDispatch(names, bundles) ==
    \E name \in names, args \in bundles :
        /\ name \notin ToolNames
        /\ last' = [op |-> name, via |-> "dispatcher", args |-> args,
                    status |-> "unknown-tool", value |-> 0]
        /\ UNCHANGED <<store, nextId, clock, connected, clients, handle, calls>>

NextDispatch ==
    \/ SaveMemoriesDispatch(MemoryBundles)
    \/ AddMemoriesDispatch(MemoryBundles)
    \/ ArchiveContextDispatch(ArchiveBundles)
    \/ SearchContextByTagsDispatch(SearchBundles)
    \/ RetrieveContextDispatch(RetrieveBundles)
    \/ UnknownToolDispatch({"archive", "save_memories"}, ArchiveBundles)

SpecDispatch == Init /\ [][NextDispatch]_vars

---------------------------------------------------------------------------
(* Calls in flight. Every db function is async: between two awaits of one
   call the store operations of another call can run. A call is followed
   here from one await to the next; each store operation (deleteMany,
   insertOne, find, updateOne, updateMany) is one step. *)

\* caller p, without a call so far, calls op with args: the call stands
\* before its connect()
Start(p, op, args) ==
    /\ calls[p] = Idle
    /\ calls' = [calls EXCEPT ![p] = [op |-> op, pc |-> "connect", args |-> args]]
    /\ UNCHANGED <<store, nextId, clock, connected, clients, handle, last>>

\* connect() up to its await: `if (client && db && collection) return;`,
\* else `client = new MongoClient(MONGODB_URI)` and client.connect() pending
ConnectTest(p) ==
    /\ calls[p].pc = "connect"
    /\ IF connected
       THEN /\ calls' = [calls EXCEPT ![p].pc = "run"]
            /\ UNCHANGED clients
       ELSE /\ calls' = [calls EXCEPT ![p].pc = "connecting"]
            /\ clients' = clients + 1
    /\ UNCHANGED <<store, nextId, clock, connected, handle, last>>

\* connect() after its await: `db = client.db(...)` and
\* `collection = db.collection(...)`, client being the module variable
ConnectAssign(p) ==
    /\ calls[p].pc = "connecting"
    /\ connected' = TRUE
    /\ handle' = clients
    /\ calls' = [calls EXCEPT ![p].pc = "run"]
    /\ UNCHANGED <<store, nextId, clock, clients, last>>

\* the call of caller p, with locals added and standing at pc
At(p, pc, locals) == [calls EXCEPT ![p] = locals @@ [calls[p] EXCEPT !.pc = pc]]

\* the call of caller p returned or threw
Finished(p, via, status, value) ==
    /\ calls' = At(p, "done", [status |-> status, value |-> value, handle |-> handle])
    /\ last' = [op |-> calls[p].op, via |-> via, args |-> calls[p].args,
                status |-> status, value |-> value]

(* save-memories: part_000 `await connect(); await clearAllMemories();
   await saveMemories(memories, llm, userId)`, memory.ts:51-52 the same
   without the first line; the connect() inside the two db functions finds
   the handle *)

SaveStart(p, bundles) ==
    \E args \in bundles :
        validMemoryArgs(args) /\ Start(p, "save-memories", args)

\* clearAllMemories: deleteMany({})
SaveClear(p) ==
    /\ calls[p].op = "save-memories" /\ calls[p].pc = "run"
    /\ store' = clearAllMemories(store)
    /\ calls' = At(p, "insert", [deleted |-> clearAllMemoriesCount(store)])
    /\ UNCHANGED <<nextId, clock, connected, clients, handle, last>>

\* saveMemories: insertOne(memoryDoc)
SaveInsert(p) ==
    /\ calls[p].op = "save-memories" /\ calls[p].pc = "insert"
    /\ Room(1)
    /\ store' = saveMemories(store, calls[p].args.memories, calls[p].args.llm,
                             userIdOf(calls[p].args), clock, nextId)
    /\ nextId' = nextId + 1
    /\ clock' = clock + 1
    /\ Finished(p, "registered", "ok", 0)
    /\ UNCHANGED <<connected, clients, handle>>

\* the bundles of two saves that can be told apart
SaveBundles == {[memories |-> <<m>>, llm |-> "claude"] : m \in Memories}

NextSaveRace ==
    \E p \in Callers :
        \/ SaveStart(p, SaveBundles)
        \/ ConnectTest(p)
        \/ ConnectAssign(p)
        \/ SaveClear(p)
        \/ SaveInsert(p)

SpecSaveRace == Init /\ [][NextSaveRace]_vars

(* scoreRelevance: one find, then one updateOne per item found *)

ScoreStart(p, bundles) ==
    \E args \in bundles : Start(p, "score-relevance", args)

\* find({ conversationId, contextType: "archived" }).toArray();
\* `if (archivedItems.length === 0) return 0`
ScoreFind(p) ==
    /\ calls[p].op = "score-relevance" /\ calls[p].pc = "run"
    /\ LET found == SelectSeq(store, LAMBDA d : isArchivedOf(d, calls[p].args.conversationId))
       IN  IF Len(found) = 0
           THEN Finished(p, "db", "ok", 0)
           ELSE /\ calls' = At(p, "update", [archivedItems |-> found, scoredCount |-> 0])
                /\ UNCHANGED last
    /\ UNCHANGED <<store, nextId, clock, connected, clients, handle>>

\* the body of the loop for the next item: the score of the item as it was
\* found, written by _id
scoreOneKeepingFirst(s, item, currentContext) ==
    [i \in DOMAIN s |->
        IF s[i]._id = item._id /\ ~Has(s[i], "relevanceScore")
        THEN SetField(s[i], "relevanceScore", relevanceScoreOf(currentContext, item))
        ELSE s[i]]

scoreOne(s, item, currentContext) ==
    updateOne(s, item._id, "relevanceScore", relevanceScoreOf(currentContext, item))

ScoreUpdate(p) ==
    /\ calls[p].op = "score-relevance" /\ calls[p].pc = "update"
    /\ LET c == calls[p]
           item == c.archivedItems[c.scoredCount + 1]
       IN  /\ store' = scoreOne(store, item, c.args.currentContext)
           /\ IF c.scoredCount + 1 = Len(c.archivedItems)
              THEN Finished(p, "db", "ok", c.scoredCount + 1)
              ELSE /\ calls' = [calls EXCEPT ![p].scoredCount = c.scoredCount + 1]
                   /\ UNCHANGED last
    /\ UNCHANGED <<nextId, clock, connected, clients, handle>>

\* stores with up to two archived items of c1, unscored
RaceMessages == {<<"a">>, <<"b">>}

RaceStores ==
    {Earlier(archivedItems("c1", b, <<"x">>, "claude", Undefined, 1)) :
        b \in Batches(RaceMessages, 2)}

RaceContexts == {<<"a">>, <<"b">>, <<"a", " ", "b">>}

ScoreBundles ==
    {[conversationId |-> "c1", currentContext |-> c, llm |-> "claude"] :
        c \in RaceContexts}

InitScoreRace ==
    /\ store \in RaceStores
    /\ nextId = 1
    /\ clock = 2
    /\ connected = FALSE
    /\ clients = 0
    /\ handle = 0
    /\ calls = NoCalls
    /\ last = [op |-> "init", via |-> "none", args |-> NoArgs,
               status |-> "ok", value |-> 0]

NextScoreRace ==
    \/ \E p \in Callers :
        \/ ScoreStart(p, ScoreBundles)
        \/ ConnectTest(p)
        \/ ConnectAssign(p)
        \/ ScoreFind(p)
        \/ ScoreUpdate(p)
    \/ /\ \E p \in Callers : calls[p] # Idle
       /\ ArchiveContext({"c1"}, {<<<<"a">>>>}, {<<"x">>})

SpecScoreRace == InitScoreRace /\ [][NextScoreRace]_vars

(* createSummary: insertOne, then updateMany *)

SummaryStart(p, bundles) ==
    \E args \in bundles : Start(p, "create-summary", args)

createSummaryInsertLinked(s, conversationId, contextItems, summaryText, llm, userId, now, id) ==
    [store |-> relink(insertOne(s, summaryDoc(conversationId, summaryText, llm, userId, now), id),
                      itemIds(contextItems), id),
     summaryId |-> id,
     itemIds |-> itemIds(contextItems)]

\* createSummary up to its second await: the summary is inserted, summaryId
\* and itemIds are in the locals
createSummaryInsert(s, conversationId, contextItems, summaryText, llm, userId, now, id) ==
    [store |-> insertOne(s, summaryDoc(conversationId, summaryText, llm, userId, now), id),
     summaryId |-> id,
     itemIds |-> itemIds(contextItems)]

\* `await collection.insertOne(summaryDoc)`; with no id among the items the
\* call returns without a second operation
SummaryInsert(p) ==
    /\ calls[p].op = "create-summary" /\ calls[p].pc = "run"
    /\ Room(1)
    /\ nextId \notin itemIds(calls[p].args.contextItems)
    /\ LET a == calls[p].args
           r == createSummaryInsert(store, a.conversationId, a.contextItems,
                                    a.summaryText, a.llm, a.userId, clock, nextId)
       IN  /\ store' = r.store
           /\ IF r.itemIds = {}
              THEN Finished(p, "db", "ok", r.summaryId)
              ELSE /\ calls' = At(p, "relink", [summaryId |-> r.summaryId,
                                               itemIds |-> r.itemIds])
                   /\ UNCHANGED last
    /\ nextId' = nextId + 1
    /\ clock' = clock + 1
    /\ UNCHANGED <<connected, clients, handle>>

\* `await collection.updateMany(...)`, then `return summaryId`
SummaryRelink(p) ==
    /\ calls[p].op = "create-summary" /\ calls[p].pc = "relink"
    /\ store' = relink(store, calls[p].itemIds, calls[p].summaryId)
    /\ Finished(p, "db", "ok", calls[p].summaryId)
    /\ UNCHANGED <<nextId, clock, connected, clients, handle>>

\* updateMany rejects, or the process stops before it: createSummary has no
\* try/catch, the rejection is the caller's and nothing else is run
SummaryRelinkFails(p) ==
    /\ calls[p].op = "create-summary" /\ calls[p].pc = "relink"
    /\ calls' = At(p, "failed", [status |-> "throw", value |-> 0, handle |-> handle])
    /\ last' = [op |-> "create-summary", via |-> "db", args |-> calls[p].args,
                status |-> "throw", value |-> 0]
    /\ UNCHANGED <<store, nextId, clock, connected, clients, handle>>

SummaryBundles ==
    {[conversationId |-> "c1", contextItems |-> items, summaryText |-> text,
      llm |-> "claude", userId |-> Undefined] :
        items \in SummaryItemLists, text \in {<<"a">>, <<"b">>}}

NextSummarySteps ==
    \E p \in Callers :
        \/ SummaryStart(p, SummaryBundles)
        \/ ConnectTest(p)
        \/ ConnectAssign(p)
        \/ SummaryInsert(p)
        \/ SummaryRelink(p)
        \/ SummaryRelinkFails(p)

SpecSummarySteps == InitSummary /\ [][NextSummarySteps]_vars

---------------------------------------------------------------------------
(* Claims *)

\* the words of a text as the specification counts them: the lower-cased
\* maximal runs of non-whitespace characters
Tokens(text) == Range(splitNonEmpty(toLowerCase(text)))

Jaccard(C, I) == <<Cardinality(C \cap I), Cardinality(C \cup I)>>

ScoredBy(d) == isArchivedOf(d, last.args.conversationId)

\* C1: after scoreRelevance(conversationId, currentContext) every archived
\* item of the conversation carries relevanceScore = |C n I| / |C u I|, C the
\* lower-cased whitespace-delimited tokens of currentContext and I those of
\* the item's memories joined with single spaces (the quotient being defined
\* when the union is not empty)
C1_JaccardPersisted ==
    last.op = "score-relevance" =>
        \A i \in DOMAIN store :
            ScoredBy(store[i]) =>
                LET C == Tokens(last.args.currentContext)
                    I == Tokens(join(store[i].memories))
                IN  /\ Has(store[i], "relevanceScore")
                    /\ (C \cup I # {} =>
                            NumEq(store[i].relevanceScore, Jaccard(C, I)))

\* the example of C1 taken alone: "a b" against "a c" persists 1/3
C1_Example ==
    (/\ last.op = "score-relevance"
     /\ last.args.currentContext = <<"a", " ", "b">>
     /\ store[1].memories = << <<"a", " ", "c">> >>)
        => store[1].relevanceScore = <<1, 3>>

\* C2: scoreRelevance with currentContext "" persists relevanceScore 0 on an
\* archived item whose text is the empty string
C2_EmptyAgainstEmptyIsZero ==
    (last.op = "score-relevance" /\ last.args.currentContext = <<>>) =>
        \A i \in DOMAIN store :
            (ScoredBy(store[i]) /\ join(store[i].memories) = <<>>) =>
                /\ Has(store[i], "relevanceScore")
                /\ NumEq(store[i].relevanceScore, <<0, 1>>)

\* C3: every item that carries a relevanceScore carries a defined number
\* between 0 and 1
C3_ScoreInUnitInterval ==
    \A i \in DOMAIN store :
        Has(store[i], "relevanceScore") =>
            LET q == store[i].relevanceScore
            IN  IsNumber(q) /\ q[2] > 0 /\ 0 <= q[1] /\ q[1] <= q[2]

\* C3 witness: an empty context has been scored against an item whose text
\* is empty or whitespace only, after a summary was created
C3_Witness ==
    /\ last.op = "score-relevance"
    /\ last.args.currentContext = <<>>
    /\ \E i \in DOMAIN store :
        /\ Has(store[i], "relevanceScore")
        /\ store[i].memories \in {<< <<>> >>, << <<" ">> >>}
    /\ \E i \in DOMAIN store : FieldIs(store[i], "contextType", "summary")

\* the documents a step appended
Appended(old, new) == SubSeq(new, Len(old) + 1, Len(new))

KeepsAll(old, new) == Len(new) >= Len(old) /\ SubSeq(new, 1, Len(old)) = old

\* C6: archiveContext with n messages adds exactly n items and returns n;
\* the item for position i is archived, has messageIndex i, memories
\* [contextMessages[i]], the given conversationId and tags, and neither
\* relevanceScore nor parentContextId (so the conversation's archived items
\* list the n messages under messageIndex 0..n-1 in input order)
C6_ArchiveAddsOneItemPerMessage ==
    [][last'.op = "archive-context" =>
        LET a == last'.args
            n == Len(a.contextMessages)
            new == Appended(store, store')
        IN  /\ last'.status = "ok"
            /\ last'.value = n
            /\ KeepsAll(store, store')
            /\ Len(new) = n
            /\ \A i \in 1..n :
                /\ i <= Len(new)
                /\ FieldIs(new[i], "contextType", "archived")
                /\ FieldIs(new[i], "messageIndex", i - 1)
                /\ FieldIs(new[i], "memories", <<a.contextMessages[i]>>)
                /\ FieldIs(new[i], "conversationId", a.conversationId)
                /\ FieldIs(new[i], "tags", a.tags)
                /\ ~Has(new[i], "relevanceScore")
                /\ ~Has(new[i], "parentContextId")]_vars

\* C6 for the batches that are not empty
C6_NonEmptyBatches ==
    [][(last'.op = "archive-context" /\ Len(last'.args.contextMessages) > 0) =>
        LET a == last'.args
            n == Len(a.contextMessages)
            new == Appended(store, store')
        IN  /\ last'.status = "ok"
            /\ last'.value = n
            /\ KeepsAll(store, store')
            /\ Len(new) = n
            /\ \A i \in 1..n :
                /\ i <= Len(new)
                /\ FieldIs(new[i], "contextType", "archived")
                /\ FieldIs(new[i], "messageIndex", i - 1)
                /\ FieldIs(new[i], "memories", <<a.contextMessages[i]>>)
                /\ FieldIs(new[i], "conversationId", a.conversationId)
                /\ FieldIs(new[i], "tags", a.tags)
                /\ ~Has(new[i], "relevanceScore")
                /\ ~Has(new[i], "parentContextId")]_vars

\* C7: archiveContext with an empty contextMessages completes successfully,
\* returns 0 and leaves the store unchanged
C7_EmptyBatchReturnsZero ==
    [][(last'.op = "archive-context" /\ Len(last'.args.contextMessages) = 0) =>
        /\ last'.status = "ok"
        /\ last'.value = 0
        /\ store' = store]_vars

\* C8: the wordCount of an archived item is the number of whitespace-delimited
\* tokens of its message, that of a summary item the number of tokens of
\* summaryText (0 for the empty string), and no operation changes the
\* wordCount of an item
C8_WordCountIsTokenCount ==
    [][/\ \A i \in DOMAIN store' :
            Has(store'[i], "wordCount") =>
                store'[i].wordCount = Len(splitNonEmpty(store'[i].memories[1]))
       /\ \A i \in DOMAIN store, j \in DOMAIN store' :
            (store[i]._id = store'[j]._id /\ Has(store[i], "wordCount")) =>
                FieldIs(store'[j], "wordCount", store[i].wordCount)]_vars

\* the second half of C8 alone: wordCount is written once
C8_WordCountNeverChanges ==
    [][\A i \in DOMAIN store, j \in DOMAIN store' :
            (store[i]._id = store'[j]._id /\ Has(store[i], "wordCount")) =>
                FieldIs(store'[j], "wordCount", store[i].wordCount)]_vars

\* C9: after a save-memories call with valid arguments, through any entry
\* point, the store holds exactly one record, the one just written with the
\* given memories, llm and userId
C9_SaveLeavesExactlyTheGivenRecord ==
    (last.op = "save-memories" /\ validMemoryArgs(last.args)) =>
        /\ last.status = "ok"
        /\ Len(store) = 1
        /\ store[1]._id = nextId - 1
        /\ store[1].memories = last.args.memories
        /\ store[1].llm = last.args.llm
        /\ store[1].userId = userIdOf(last.args)

\* C9 for the tool function and the registered handler
C9_HandlersOverwrite ==
    (last.op = "save-memories" /\ validMemoryArgs(last.args)
        /\ last.via \in {"tool", "registered"}) =>
        /\ last.status = "ok"
        /\ Len(store) = 1
        /\ store[1]._id = nextId - 1
        /\ store[1].memories = last.args.memories
        /\ store[1].llm = last.args.llm
        /\ store[1].userId = userIdOf(last.args)

\* C10: an add-memories call with valid arguments (a batch that is not empty
\* and an llm) appends exactly one record holding the given batch and leaves
\* every existing record as it was
C10_AddAppendsOneRecord ==
    [][(/\ last'.op = "add-memories" /\ validMemoryArgs(last'.args)
        /\ Len(last'.args.memories) > 0) =>
        LET new == Appended(store, store')
        IN  /\ last'.status = "ok"
            /\ KeepsAll(store, store')
            /\ Len(new) = 1
            /\ new[1].memories = last'.args.memories
            /\ new[1].llm = last'.args.llm
            /\ new[1].userId = userIdOf(last'.args)]_vars

\* C10 for the registered handler, and for the tool function when the batch
\* is not empty
C10_HandlersAppend ==
    [][(/\ last'.op = "add-memories" /\ validMemoryArgs(last'.args)
        /\ \/ last'.via = "registered"
           \/ last'.via = "tool" /\ Len(last'.args.memories) > 0) =>
        LET new == Appended(store, store')
        IN  /\ last'.status = "ok"
            /\ KeepsAll(store, store')
            /\ Len(new) = 1
            /\ new[1].memories = last'.args.memories
            /\ new[1].llm = last'.args.llm
            /\ new[1].userId = userIdOf(last'.args)]_vars

\* what a retrieve-context call asks for, in the words of the specification
Threshold(a) == IF a.minRelevanceScore = <<>> THEN <<1, 10>> ELSE a.minRelevanceScore

AtMost(a) == IF a.limit = <<>> THEN 10 ELSE a.limit[1]

Matches(d, a) ==
    /\ Has(d, "contextType") /\ d.contextType = "archived"
    /\ Has(d, "conversationId") /\ d.conversationId = a.conversationId
    /\ Has(d, "relevanceScore") /\ Gte(d.relevanceScore, Threshold(a))
    /\ (a.tags # <<>> =>
            Has(d, "tags") /\ \E t \in Range(d.tags) : t \in Range(a.tags))

\* x does not rank below y: higher score, or the same score and not older
RanksNotBelow(x, y) ==
    \/ Gt(x.relevanceScore, y.relevanceScore)
    \/ NumEq(x.relevanceScore, y.relevanceScore) /\ x.timestamp >= y.timestamp

\* C4: retrieveContext returns only stored items that are archived, of the
\* given conversation, scored at or above the threshold and (tags given)
\* sharing a tag; an item never scored is never returned; of items scored
\* 0.9, 0.5 and 0.05 a threshold of 0.1 returns exactly the first two
C4_RetrieveReturnsOnlyMatching ==
    last.op = "retrieve-context" =>
        LET r == last.value
            a == last.args
        IN  /\ \A i \in DOMAIN r :
                /\ \E j \in DOMAIN store : store[j] = r[i]
                /\ Matches(r[i], a)
            /\ (/\ store = ExampleStore
                /\ a.conversationId = "c1" /\ a.tags = <<>>
                /\ a.minRelevanceScore = <<1, 10>> /\ a.limit = <<>>)
                    => [i \in DOMAIN r |-> r[i]._id] = <<2, 3>>

\* C4 witness: with threshold 0 a scored item is returned while an archived
\* item of the same conversation that was never scored is in the store
C4_Witness ==
    /\ last.op = "retrieve-context"
    /\ last.args.minRelevanceScore = <<0, 1>>
    /\ Len(last.value) > 0
    /\ \E j \in DOMAIN store :
        /\ isArchivedOf(store[j], last.args.conversationId)
        /\ ~Has(store[j], "relevanceScore")

\* C5: the result is ordered by relevanceScore descending, then timestamp
\* descending, holds at most limit items (10 when omitted; threshold 0.1
\* when omitted) and is a prefix of the sorted matching items: it holds
\* min(limit, number of matching items) distinct matching items and no
\* matching item left out ranks above a returned one
C5_RetrieveSortedPrefix ==
    last.op = "retrieve-context" =>
        LET r == last.value
            a == last.args
            M == {j \in DOMAIN store : Matches(store[j], a)}
            returned == {r[i]._id : i \in DOMAIN r}
        IN  /\ Len(r) <= AtMost(a)
            /\ Len(r) = Min(AtMost(a), Cardinality(M))
            /\ Cardinality(returned) = Len(r)
            /\ returned \subseteq {store[j]._id : j \in M}
            /\ \A i, j \in DOMAIN r : i < j => RanksNotBelow(r[i], r[j])
            /\ \A j \in M :
                store[j]._id \notin returned =>
                    \A i \in DOMAIN r : RanksNotBelow(r[i], store[j])

\* C5 witness: limit omitted, more than 10 items match and 10 are returned
C5_Witness ==
    /\ last.op = "retrieve-context"
    /\ last.args.limit = <<>>
    /\ Len(last.value) = 10
    /\ Cardinality({j \in DOMAIN store : Matches(store[j], last.args)}) > 10
    /\ \E i, j \in DOMAIN last.value :
        Gt(last.value[i].relevanceScore, last.value[j].relevanceScore)

\* a MemoryRecord of the ledger: a document that is no context item
IsMemoryRecord(d) == ~Has(d, "contextType")

MemoryRecords(s) == SelectSeq(s, IsMemoryRecord)

NewestFirst(r) == \A i, j \in DOMAIN r : i < j => r[i].timestamp >= r[j].timestamp

\* C11: clearAllMemories deletes every MemoryRecord and returns the number
\* of MemoryRecords that existed immediately before the call, without an
\* error; a second call in a row returns 0
C11_ClearReturnsLedgerCount ==
    [][last'.op = "clear-memories" =>
        /\ last'.status = "ok"
        /\ last'.value = Len(MemoryRecords(store))
        /\ MemoryRecords(store') = <<>>
        /\ (last.op = "clear-memories" => last'.value = 0)]_vars

\* C11 when the collection holds nothing but MemoryRecords
C11_LedgerAlone ==
    [][(last'.op = "clear-memories" /\ MemoryRecords(store) = store) =>
        /\ last'.status = "ok"
        /\ last'.value = Len(MemoryRecords(store))
        /\ MemoryRecords(store') = <<>>
        /\ (last.op = "clear-memories" => last'.value = 0)]_vars

\* C12: getAllMemories returns exactly the MemoryRecords in the store (no
\* archived fragment, no summary item), ordered by timestamp descending
C12_GetAllReturnsTheLedger ==
    last.op = "get-memories" =>
        /\ last.status = "ok"
        /\ Len(last.value) = Len(MemoryRecords(store))
        /\ \A i \in DOMAIN last.value :
            /\ IsMemoryRecord(last.value[i])
            /\ \E j \in DOMAIN store : store[j] = last.value[i]
        /\ \A j \in DOMAIN store :
            IsMemoryRecord(store[j]) => \E i \in DOMAIN last.value : last.value[i] = store[j]
        /\ NewestFirst(last.value)

\* the parts of C12 that hold: every MemoryRecord is returned, once, and
\* the result is ordered by timestamp descending
C12_CompleteAndNewestFirst ==
    last.op = "get-memories" =>
        /\ last.status = "ok"
        /\ Len(last.value) = Len(store)
        /\ \A j \in DOMAIN store :
            IsMemoryRecord(store[j]) => \E i \in DOMAIN last.value : last.value[i] = store[j]
        /\ NewestFirst(last.value)

\* the ids the items of a contextItems argument carry
CarriedIds(contextItems) ==
    {contextItems[i]._id : i \in {k \in DOMAIN contextItems : Has(contextItems[k], "_id")}}

IsSummary(d) == Has(d, "contextType") /\ d.contextType = "summary"

\* C13: after createSummary returns summaryId, every stored item whose id is
\* in contextItems is archived with parentContextId = summaryId, and exactly
\* one new item exists, a summary with memories = [summaryText], summaryText
\* and the given conversationId; with 2 valid-id sources and no earlier
\* summary, getConversationSummaries returns exactly that one item
C13_SummaryLinksItsSources ==
    [][last'.op = "create-summary" =>
        LET a == last'.args
            summaryId == last'.value
            ids == CarriedIds(a.contextItems)
            new == Appended(store, store')
        IN  /\ last'.status = "ok"
            /\ \A j \in DOMAIN store' :
                store'[j]._id \in ids =>
                    /\ FieldIs(store'[j], "contextType", "archived")
                    /\ FieldIs(store'[j], "parentContextId", summaryId)
            /\ Len(store') = Len(store) + 1
            /\ Len(new) = 1
            /\ new[1]._id = summaryId
            /\ summaryId \notin Ids(store)
            /\ FieldIs(new[1], "contextType", "summary")
            /\ FieldIs(new[1], "memories", <<a.summaryText>>)
            /\ FieldIs(new[1], "summaryText", a.summaryText)
            /\ FieldIs(new[1], "conversationId", a.conversationId)
            /\ (/\ Cardinality(ids \cap Ids(store)) = 2
                /\ \A j \in DOMAIN store : ~IsSummary(store[j]))
                    => \A tiesReversed \in BOOLEAN :
                        LET r == getConversationSummaries(store', a.conversationId,
                                                          tiesReversed)
                        IN  Len(r) = 1 /\ r[1].summaryText = a.summaryText]_vars

\* C13 witness: a summary was created from two stored items, both now
\* linked to it, and it is the only summary
C13_Witness ==
    /\ last.op = "create-summary"
    /\ Cardinality({j \in DOMAIN store :
                        /\ store[j]._id \in CarriedIds(last.args.contextItems)
                        /\ FieldIs(store[j], "parentContextId", last.value)}) = 2
    /\ Cardinality({j \in DOMAIN store : IsSummary(store[j])}) = 1

SummariesOf(s, conversationId) ==
    {j \in DOMAIN s : IsSummary(s[j]) /\ FieldIs(s[j], "conversationId", conversationId)}

ListsTheSummaries(r, s, conversationId) ==
    /\ Len(r) = Cardinality(SummariesOf(s, conversationId))
    /\ \A i \in DOMAIN r : \E j \in SummariesOf(s, conversationId) : s[j] = r[i]
    /\ \A j \in SummariesOf(s, conversationId) : \E i \in DOMAIN r : r[i] = s[j]
    /\ NewestFirst(r)

\* C15: getConversationSummaries returns exactly the stored summary items of
\* the conversation, newest first, and a summary created for a conversation
\* stays a summary of it through every later operation other than a clear
C15_SummariesListedAndKept ==
    [][/\ last'.op = "get-conversation-summaries" =>
            ListsTheSummaries(last'.value, store', last'.args.conversationId)
       /\ last'.op \notin {"clear-memories", "save-memories"} =>
            \A j \in DOMAIN store :
                IsSummary(store[j]) =>
                    \E k \in DOMAIN store' :
                        /\ store'[k]._id = store[j]._id
                        /\ IsSummary(store'[k])
                        /\ store'[k].conversationId = store[j].conversationId]_vars

\* the first half of C15 alone: what one call returns from the store it
\* reads
C15_ListsExactlyTheSummaries ==
    last.op = "get-conversation-summaries" =>
        ListsTheSummaries(last.value, store, last.args.conversationId)

\* C16: searchContextByTags returns, across all conversations, every
\* archived or summary item whose tags intersect the given tags and no item
\* whose tags are disjoint from them or absent (a summary item is returned
\* whenever it has a tag in common)
C16_TagSearchReturnsTheIntersecting ==
    (last.op = "search-context-by-tags" /\ last.via = "db" /\ last.status = "ok") =>
        LET r == last.value
            tags == last.args.tags
            hit == {j \in DOMAIN store :
                        /\ Has(store[j], "contextType")
                        /\ store[j].contextType \in {"archived", "summary"}
                        /\ Has(store[j], "tags")
                        /\ \E t \in Range(store[j].tags) : t \in Range(tags)}
        IN  /\ Len(r) = Cardinality(hit)
            /\ \A j \in hit : \E i \in DOMAIN r : r[i] = store[j]
            /\ \A i \in DOMAIN r : \E j \in hit : store[j] = r[i]

\* C16 witness: a search for two tags returned items of two conversations
\* that carry one of them each, while the store also holds a summary
C16_Witness ==
    /\ last.op = "search-context-by-tags"
    /\ Len(last.args.tags) = 2
    /\ \E i, k \in DOMAIN last.value :
        /\ last.value[i].conversationId # last.value[k].conversationId
        /\ last.value[i].tags # last.value[k].tags
    /\ \E j \in DOMAIN store : IsSummary(store[j])

\* no summary that createSummary made carries tags, so none is ever in the
\* result of a tag search
C16_SummariesCarryNoTags ==
    /\ \A j \in DOMAIN store : IsSummary(store[j]) => ~Has(store[j], "tags")
    /\ last.op = "search-context-by-tags" =>
        \A i \in DOMAIN last.value : ~IsSummary(last.value[i])

\* C20: scoreRelevance gives a score to every archived item of the
\* conversation, whatever its tags, its earlier score or its link to a
\* summary, touches nothing else, and returns the number of those items; it
\* returns 0 and writes nothing when the conversation has none
C20_ScoresEveryArchivedItem ==
    [][last'.op = "score-relevance" =>
        LET a == last'.args
            T == {j \in DOMAIN store :
                    /\ FieldIs(store[j], "contextType", "archived")
                    /\ FieldIs(store[j], "conversationId", a.conversationId)}
        IN  /\ last'.status = "ok"
            /\ last'.value = Cardinality(T)
            /\ Len(store') = Len(store)
            /\ \A j \in T :
                /\ Has(store'[j], "relevanceScore")
                /\ NumEq(store'[j].relevanceScore,
                         Jaccard(Tokens(a.currentContext), Tokens(join(store[j].memories))))
                /\ store'[j] = SetField(store[j], "relevanceScore",
                                        store'[j].relevanceScore)
            /\ \A j \in DOMAIN store \ T : store'[j] = store[j]
            /\ (T = {} => store' = store)]_vars

\* C20 witness: two items of the conversation with different tags were
\* scored, one of them linked to a summary, one of them never scored
\* before the run
C20_Witness ==
    /\ last.op = "score-relevance"
    /\ last.value = 2
    /\ \E j, k \in DOMAIN store :
        /\ isArchivedOf(store[j], last.args.conversationId)
        /\ isArchivedOf(store[k], last.args.conversationId)
        /\ store[j].tags # store[k].tags
        /\ Has(store[j], "parentContextId")
        /\ Has(store[j], "relevanceScore") /\ Has(store[k], "relevanceScore")
    /\ \E j \in DOMAIN store : ~isArchivedOf(store[j], last.args.conversationId)

\* C17: searchContextByTags with an empty tags sequence fails with a
\* ValidationError, an outcome other than the successful empty result of a
\* search that matches nothing
C17_EmptyTagsAreRejected ==
    (/\ last.op = "search-context-by-tags"
     /\ Has(last.args, "tags") /\ last.args.tags = <<>>) =>
        last.status = "invalid"

\* C17 for the tool function of memory.ts, whose reply to empty tags is a
\* text of its own
C17_ToolAnswersEmptyTags ==
    (/\ last.op = "search-context-by-tags" /\ last.via = "tool"
     /\ Has(last.args, "tags") /\ last.args.tags = <<>>) =>
        last.status = "invalid"

\* the arguments of a call fail the shape its tool expects
InvalidArgs(op, args) ==
    \/ op \in {"save-memories", "add-memories"} /\ ~validMemoryArgs(args)
    \/ op = "archive-context"
        /\ \E f \in {"conversationId", "contextMessages", "tags", "llm"} : ~Has(args, f)
    \/ op = "search-context-by-tags" /\ ~Has(args, "tags")

\* C18: a call whose arguments fail the type or shape expectations is
\* rejected before any store operation: it does not succeed and the store
\* is the same before and after (archive-context without a tags sequence
\* inserts nothing, save-memories with invalid arguments clears nothing)
C18_InvalidCallsLeaveTheStore ==
    [][InvalidArgs(last'.op, last'.args) =>
        /\ last'.status # "ok"
        /\ store' = store]_vars

\* C18 for the tool functions and the registered handlers, and for
\* archive-context and search-context-by-tags on every entry point
C18_HandlersReject ==
    [][(/\ InvalidArgs(last'.op, last'.args)
        /\ \/ last'.via \in {"tool", "registered"}
           \/ last'.op \in {"archive-context", "search-context-by-tags"}) =>
        /\ last'.status # "ok"
        /\ store' = store]_vars

\* limit outside 1..50 or minRelevanceScore outside [0,1]
OutOfRange(args) ==
    \/ args.limit # <<>> /\ (args.limit[1] < 1 \/ args.limit[1] > 50)
    \/ args.minRelevanceScore # <<>>
        /\ \/ args.minRelevanceScore[1] < 0
           \/ args.minRelevanceScore[1] > args.minRelevanceScore[2]

\* C19: retrieve-context with limit outside 1..50 or minRelevanceScore
\* outside [0,1] is rejected with a ValidationError on every entry point,
\* and no call returns more than 50 items
C19_OutOfRangeIsRejected ==
    last.op = "retrieve-context" =>
        /\ OutOfRange(last.args) => last.status = "invalid" /\ last.value = <<>>
        /\ Len(last.value) <= 50

\* C19 for the registered handler called through the SDK
C19_SchemaRejects ==
    (last.op = "retrieve-context" /\ last.via = "registered") =>
        /\ OutOfRange(last.args) => last.status = "invalid" /\ last.value = <<>>
        /\ Len(last.value) <= 50

\* the second half of C19 alone: more than 50 items in one result
C19_AtMostFifty ==
    last.op = "retrieve-context" => Len(last.value) <= 50

\* a context item: an archived fragment or a summary
IsContextItem(d) == Has(d, "contextType")

StillStored(d, s) == \E k \in DOMAIN s : s[k]._id = d._id

\* C21: no operation ever deletes an archived fragment: an item that
\* archiveContext created is in the store after every ledger, archive,
\* scoring and summary operation, save-memories and clear-memories included
C21_FragmentsAreNeverDeleted ==
    [][\A j \in DOMAIN store :
        (IsContextItem(store[j]) /\ ~IsSummary(store[j])) =>
            StillStored(store[j], store')]_vars

\* C21 for the operations of the archive, the scorer and the summary
\* manager: they delete nothing, and createSummary changes nothing of a
\* fragment but contextType and parentContextId
C21_ContextCallsKeepFragments ==
    [][\A j \in DOMAIN store :
        /\ StillStored(store[j], store')
        /\ \A f \in DOMAIN store[j] \ {"contextType", "parentContextId", "relevanceScore"} :
            store'[j][f] = store[j][f]]_vars

\* the stored document with the id of d is d itself
Unchanged(d, s) == \A k \in DOMAIN s : s[k]._id = d._id => s[k] = d

\* C22: a summary item is never mutated after createSummary has inserted it:
\* whatever call comes later, a createSummary whose contextItems carry the
\* id of the summary included, the item keeps contextType summary, has no
\* parentContextId and keeps its other fields
C22_SummariesAreNeverMutated ==
    [][\A j \in DOMAIN store :
        IsSummary(store[j]) =>
            /\ ~Has(store[j], "parentContextId")
            /\ Unchanged(store[j], store')]_vars

\* C22 for every call but a createSummary that is handed the id of a
\* summary: scoring, archiving and the other summaries leave it as it is
C22_OtherCallsKeepSummaries ==
    [][\A j \in DOMAIN store :
        (/\ IsSummary(store[j])
         /\ ~(/\ last'.op = "create-summary"
              /\ store[j]._id \in CarriedIds(last'.args.contextItems))) =>
            /\ ~Has(store[j], "parentContextId")
            /\ Unchanged(store[j], store')]_vars

\* the stored items a parentContextId of value id refers to
Referred(id) == {k \in DOMAIN store : store[k]._id = id}

\* C28: in every reachable state every item that carries a parentContextId
\* refers to an item that exists in the store, is a summary and has the
\* conversationId of the referring item
C28_ParentIsASummaryOfTheConversation ==
    \A j \in DOMAIN store :
        Has(store[j], "parentContextId") =>
            \E k \in Referred(store[j].parentContextId) :
                /\ IsSummary(store[k])
                /\ Has(store[j], "conversationId")
                /\ store[k].conversationId = store[j].conversationId

\* the part of C28 that does not depend on the ids the caller sends: the
\* item referred to exists
C28_ParentExists ==
    \A j \in DOMAIN store :
        Has(store[j], "parentContextId") => Referred(store[j].parentContextId) # {}

ScoreOf(d) == IF Has(d, "relevanceScore") THEN <<d.relevanceScore>> ELSE <<>>

\* C25: relevanceScore is written only by scoreRelevance and only on items
\* of the conversation passed to it: a freshly archived item has none,
\* archiveContext and createSummary set or change no item's relevanceScore,
\* and scoreRelevance(c, ...) leaves every item of every other conversation
\* and every summary item unchanged
C25_OnlyTheScorerWritesScores ==
    [][/\ \A k \in DOMAIN Appended(store, store') :
            ~Has(Appended(store, store')[k], "relevanceScore")
       /\ last'.op # "score-relevance" =>
            \A j \in DOMAIN store : \A k \in DOMAIN store' :
                store'[k]._id = store[j]._id => ScoreOf(store'[k]) = ScoreOf(store[j])
       /\ last'.op = "score-relevance" =>
            \A j \in DOMAIN store :
                (\/ ~FieldIs(store[j], "conversationId", last'.args.conversationId)
                 \/ IsSummary(store[j])) => Unchanged(store[j], store')]_vars

\* C25 witness: a scoring of c1 gave an item of c1 the score 1 while the
\* store holds a scored item of c2, a summary and a fragment archived after
\* the start that was not scored before
C25_Witness ==
    /\ last.op = "score-relevance"
    /\ last.args.conversationId = "c1"
    /\ \E j \in DOMAIN store :
        /\ FieldIs(store[j], "conversationId", "c1")
        /\ FieldIs(store[j], "relevanceScore", <<1, 1>>)
    /\ \E j \in DOMAIN store :
        /\ FieldIs(store[j], "conversationId", "c2")
        /\ Has(store[j], "relevanceScore")
    /\ \E j \in DOMAIN store : IsSummary(store[j])

\* C26: a tool call dispatched by name through the CallTool handler runs
\* the tool's operation with the named parameters of the bundle bound to
\* the parameters of the same names: archive-context with conversationId,
\* contextMessages, tags and llm archives Len(contextMessages) items under
\* conversationId; a call that names an unregistered tool fails with
\* 'Unknown tool' and leaves the store as it is
C26_DispatchBindsNamedParameters ==
    [][last'.via = "dispatcher" =>
        /\ (last'.op = "archive-context" /\ validArchiveArgs(last'.args)
            /\ Len(last'.args.contextMessages) > 0) =>
                LET new == Appended(store, store')
                IN  /\ last'.status = "ok"
                    /\ last'.value = Len(last'.args.contextMessages)
                    /\ Len(new) = Len(last'.args.contextMessages)
                    /\ \A k \in DOMAIN new :
                        /\ FieldIs(new[k], "conversationId", last'.args.conversationId)
                        /\ FieldIs(new[k], "memories", <<last'.args.contextMessages[k]>>)
        /\ last'.op \notin ToolNames =>
                /\ last'.status = "unknown-tool"
                /\ UNCHANGED <<store, nextId, clock, connected>>]_vars

\* the second half of C26 alone: an unregistered name
C26_UnknownToolFails ==
    [][(last'.via = "dispatcher" /\ last'.op \notin ToolNames) =>
        /\ last'.status = "unknown-tool"
        /\ UNCHANGED <<store, nextId, clock, connected>>]_vars

\* a text with one whitespace character added before or after it
Padded(text) == {text, <<" ">> \o text, text \o <<" ">>}

\* C30: the score scoreRelevance persists depends only on the two sets of
\* lower-cased non-empty words: whitespace added before or after
\* currentContext or the item's text gives the same score, and an item
\* whose words are the words of the context scores exactly 1 whatever the
\* surrounding whitespace and the letter case
C30_ScoreIgnoresSurroundingWhitespace ==
    last.op = "score-relevance" =>
        \A i \in DOMAIN store :
            ScoredBy(store[i]) =>
                LET C == last.args.currentContext
                    T == join(store[i].memories)
                    q == store[i].relevanceScore
                IN  /\ \A C2 \in Padded(C), T2 \in Padded(T) :
                        NumEq(relevanceScoreOf(C2, [memories |-> <<T2>>]), q)
                    /\ Tokens(C) = Tokens(T) => NumEq(q, <<1, 1>>)

\* C30 for texts that neither start nor end with whitespace and are not
\* empty: letter case does not matter and equal word sets score 1
C30_TrimmedTextsScoreByWords ==
    last.op = "score-relevance" =>
        \A i \in DOMAIN store :
            ScoredBy(store[i]) =>
                LET C == last.args.currentContext
                    T == join(store[i].memories)
                    q == store[i].relevanceScore
                    Trimmed(t) == t # <<>> /\ ~isWhitespace(t[1]) /\ ~isWhitespace(t[Len(t)])
                IN  (Trimmed(C) /\ Trimmed(T)) =>
                        /\ NumEq(q, Jaccard(Tokens(C), Tokens(T)))
                        /\ Tokens(C) = Tokens(T) => NumEq(q, <<1, 1>>)

\* every caller has called op and every call has returned
AllReturned(op) == \A p \in Callers : calls[p].op = op /\ calls[p].pc = "done"

\* C27: when two save-memories calls with valid arguments run concurrently,
\* each a clear followed by an insert, then after both have completed the
\* ledger holds exactly one MemoryRecord, the batch of one of the two
\* calls, for every interleaving of their store operations
C27_ConcurrentSavesLeaveOneRecord ==
    AllReturned("save-memories") =>
        /\ Len(MemoryRecords(store)) = 1
        /\ \E p \in Callers : store[1].memories = calls[p].args.memories

\* what does hold after two concurrent saves: the record of the call that
\* inserted last is there, with at most the record of the other call
C27_LastSaveIsStored ==
    AllReturned("save-memories") =>
        /\ Len(store) \in {1, 2}
        /\ store[Len(store)].memories = last.args.memories
        /\ \A j \in DOMAIN store :
            \E p \in Callers : store[j].memories = calls[p].args.memories

\* C29: connect() initialises the process-wide handle at most once: however
\* many calls reach connect() before the first connection is established,
\* exactly one MongoClient is created and all of them use the same
\* collection handle; once connected, connect() creates nothing
C29_OneClientIsCreated ==
    /\ clients <= 1
    /\ connected => clients = 1 /\ handle = 1
    /\ \A p, q \in Callers :
        (calls[p].pc = "done" /\ calls[q].pc = "done") => calls[p].handle = calls[q].handle

\* the parts of C29 that hold: once the handle is there no client is
\* created and the handle is not replaced by one of another client, and
\* the calls that returned used the handle of one client
C29_ConnectedCreatesNothing ==
    [][/\ connected => (clients' = clients /\ handle' = handle /\ connected')
       /\ \A p, q \in Callers :
            (calls'[p].pc = "done" /\ calls'[q].pc = "done") =>
                calls'[p].handle = calls'[q].handle]_vars

\* the find of every call of cs returned the item
ReadByAll(cs, d) ==
    \A p \in Callers :
        /\ Has(cs[p], "archivedItems")
        /\ \E k \in DOMAIN cs[p].archivedItems : cs[p].archivedItems[k]._id = d._id

ReadByBoth(d) == ReadByAll(calls, d)

\* the callers that are in their loop of updates
Updating == {p \in Callers : calls[p].op = "score-relevance" /\ calls[p].pc = "update"}

\* C23: two scoreRelevance calls with contexts A and B that run
\* concurrently on one conversation may interleave their updates: each
\* update writes the Jaccard score of its own call on one item and leaves
\* the others, so that the score of an item is the one whose update landed
\* last, and once both have finished every archived item read by both
\* holds its score against A or its score against B
C23_LastScoreWins ==
    [][/\ \A p \in Updating :
            calls'[p] # calls[p] =>
                LET item == calls[p].archivedItems[calls[p].scoredCount + 1]
                IN  \A j \in DOMAIN store :
                        IF store[j]._id = item._id
                        THEN FieldIs(store'[j], "relevanceScore",
                                     relevanceScoreOf(calls[p].args.currentContext, store[j]))
                        ELSE store'[j] = store[j]
       /\ AllReturned("score-relevance")' =>
            \A j \in DOMAIN store' :
                ReadByAll(calls', store'[j]) =>
                    \E p \in Callers :
                        FieldIs(store'[j], "relevanceScore",
                                relevanceScoreOf(calls'[p].args.currentContext, store'[j]))]_vars

\* C23 witness: both calls have finished and two items they both read hold
\* scores of different calls: the first the score against the context of
\* caller 1 and not that of caller 2, the second the other way round
C23_Witness ==
    /\ AllReturned("score-relevance")
    /\ \E i, j \in DOMAIN store :
        /\ i # j
        /\ ReadByBoth(store[i]) /\ ReadByBoth(store[j])
        /\ store[i].relevanceScore = relevanceScoreOf(calls[1].args.currentContext, store[i])
        /\ store[i].relevanceScore # relevanceScoreOf(calls[2].args.currentContext, store[i])
        /\ store[j].relevanceScore = relevanceScoreOf(calls[2].args.currentContext, store[j])
        /\ store[j].relevanceScore # relevanceScoreOf(calls[1].args.currentContext, store[j])

\* the callers whose createSummary failed between its two operations
Failed(cs) == {p \in Callers : cs[p].op = "create-summary" /\ cs[p].pc = "failed"}

\* getConversationSummaries on s returns the item with this id
ListedAsSummary(s, conversationId, id) ==
    \A tiesReversed \in BOOLEAN :
        \E k \in DOMAIN getConversationSummaries(s, conversationId, tiesReversed) :
            getConversationSummaries(s, conversationId, tiesReversed)[k]._id = id

\* another call was handed the id of this summary as one of its sources
HandedTo(cs, p, id) ==
    \E q \in Callers \ {p} :
        cs[q].op = "create-summary" /\ id \in CarriedIds(cs[q].args.contextItems)

\* C24: createSummary inserts the summary strictly before it relinks the
\* sources, as two store operations: the first adds the summary and
\* changes no stored item; if the second fails or the process stops
\* before it, the error is the caller's, the summary exists and is
\* returned by getConversationSummaries, no item is linked to it, and
\* nothing deletes it afterwards
C24_SummaryStaysWhenRelinkFails ==
    [][\A p \in Callers :
        /\ (/\ calls[p].op = "create-summary" /\ calls[p].pc = "run"
            /\ calls'[p].pc \in {"relink", "done"}) =>
                /\ KeepsAll(store, store')
                /\ Len(Appended(store, store')) = 1
                /\ IsSummary(Appended(store, store')[1])
                /\ calls'[p].pc = "relink" =>
                    Appended(store, store')[1]._id = calls'[p].summaryId
        /\ (calls[p].pc = "relink" /\ p \in Failed(calls')) =>
                /\ store' = store
                /\ last'.status = "throw"
                /\ last'.args = calls[p].args
        /\ p \in Failed(calls') =>
                /\ \E j \in DOMAIN store' : store'[j]._id = calls'[p].summaryId
                /\ \A j \in DOMAIN store' :
                    ~FieldIs(store'[j], "parentContextId", calls'[p].summaryId)
                /\ ~HandedTo(calls', p, calls'[p].summaryId) =>
                    ListedAsSummary(store', calls'[p].args.conversationId,
                                    calls'[p].summaryId)]_vars

\* C24 witness: a createSummary over two stored items failed after its
\* insert: the summary is listed and neither item is linked or relabelled
C24_Witness ==
    \E p \in Failed(calls) :
        /\ calls[p].itemIds = {11, 12}
        /\ {11, 12} \subseteq Ids(store)
        /\ \A j \in DOMAIN store :
            store[j]._id \in {11, 12} => ~Has(store[j], "parentContextId")
        /\ ListedAsSummary(store, "c1", calls[p].summaryId)
        /\ last.status = "throw"

===========================================================================
